---- MODULE Spec2Model ----
(***************************************************************************)
(* StockEstimate: the supply-timeline calculation of                       *)
(* src/src/components/InventoryTable.jsx (calculation utilities, lines     *)
(* 462-694).                                                               *)
(*                                                                         *)
(* Representation of JavaScript values:                                    *)
(*  - an object is a function over the names of the fields it has; a       *)
(*    missing (undefined) field is a name outside its DOMAIN;              *)
(*  - a date string is the pair <<day, tod>>: the calendar day (counted    *)
(*    from an epoch) and the time of day in milliseconds (0 for a plain    *)
(*    YYYY-MM-DD string); null is the empty tuple <<>>;                    *)
(*  - quantities are integers; a quotient is the exact fraction            *)
(*    [n |-> numerator, d |-> denominator] in lowest terms, and Infinity   *)
(*    is the fraction 1/0.  Floating-point rounding is not modelled.       *)
(***************************************************************************)
EXTENDS Integers, Sequences, FiniteSets, TLC

VARIABLES
  chem, today, result, pc,          \* one record through migrate / calculateChemical
  chemicals, refArg, clock, view,   \* a collection through calculateAll
  store, lastReq, nreq,             \* the persisted document and its endpoints
  backend, procs                    \* the backend in use and the requests in progress

engineVars == <<chem, today, result, pc>>

portfolioVars == <<chemicals, refArg, clock, view>>

storeVars == <<store, lastReq, nreq>>

backendVars == <<backend, procs>>

vars == <<engineVars, portfolioVars, storeVars, backendVars>>

(***************************************************************************)
(* Bounds and input values                                                 *)
(***************************************************************************)
MaxImports == 2

MsPerDay == 86400000

HalfDayMs == MsPerDay \div 2

Null == <<>>

RefDay == 1

DayStr(day) == <<day, 0>>

NoonStr(day) == <<day, HalfDayMs>>

(***************************************************************************)
(* Exact fractions                                                         *)
(***************************************************************************)
Abs(a) == IF a < 0 THEN -a ELSE a

RECURSIVE GCD(_, _)
GCD(a, b) == IF b = 0 THEN a ELSE GCD(b, a % b)

Frac(num, den) ==
  IF den = 0 THEN [n |-> IF num < 0 THEN -1 ELSE IF num = 0 THEN 0 ELSE 1, d |-> 0]
  ELSE LET s == IF den < 0 THEN -1 ELSE 1
           g == GCD(Abs(num), Abs(den))
       IN  [n |-> (s * num) \div g, d |-> (s * den) \div g]

Infinity == [n |-> 1, d |-> 0]

Zero == [n |-> 0, d |-> 1]

Num(k) == [n |-> k, d |-> 1]

IsFinite(x) == x.d # 0

FAdd(x, y) == Frac(x.n * y.d + y.n * x.d, x.d * y.d)

FSub(x, y) == Frac(x.n * y.d - y.n * x.d, x.d * y.d)

FMul(x, y) == Frac(x.n * y.n, x.d * y.d)

FDiv(x, y) == Frac(x.n * y.d, x.d * y.n)

FLt(x, y) == x.n * y.d < y.n * x.d

FLe(x, y) == x.n * y.d <= y.n * x.d

FMax(x, y) == IF FLt(x, y) THEN y ELSE x

CeilDiv(a, b) == -((-a) \div b)

FCeil(x) == CeilDiv(x.n, x.d)

(***************************************************************************)
(* Field access with the defaults the code applies                         *)
(***************************************************************************)
Has(o, f) == f \in DOMAIN o

\* variant: a missing number read as 1 (|| 1)
OrOne(o, f) == IF Has(o, f) THEN o[f] ELSE 1

OrZero(o, f) == IF Has(o, f) THEN o[f] ELSE 0

OrNull(o, f) == IF Has(o, f) THEN o[f] ELSE Null

HasEta(i) == Has(i, "eta") /\ i.eta # Null

HasLabel(i) == Has(i, "label") /\ i.label # ""

Without(o, fs) == [f \in (DOMAIN o) \ fs |-> o[f]]

(***************************************************************************)
(* Date arithmetic                                                         *)
(***************************************************************************)
\* new Date(str): milliseconds since the epoch
DateMs(str) == str[1] * MsPerDay + str[2]

\* variant: the operands of the subtraction exchanged
diffInDaysSwapped(fromDate, toDate) ==
  LET from == DateMs(fromDate)
      to == DateMs(toDate)
  IN  CeilDiv(from - to, MsPerDay)

diffInDays(fromDate, toDate) ==
  LET from == DateMs(fromDate)
      to == DateMs(toDate)
  IN  CeilDiv(to - from, MsPerDay)

\* a.eta.localeCompare(b.eta) on ISO date strings: -1, 0 or 1
localeCompare(a, b) ==
  IF a[1] < b[1] \/ (a[1] = b[1] /\ a[2] < b[2]) THEN -1
  ELSE IF a = b THEN 0 ELSE 1

(***************************************************************************)
(* migrateChemical (client calculation module)                             *)
(***************************************************************************)
migrateChemical(c) ==
  IF Has(c, "imports") THEN c
  ELSE LET oldQty == OrZero(c, "import")
           oldEta == OrNull(c, "importEta")
           imports == IF oldQty > 0
                      THEN << [qty |-> oldQty, eta |-> oldEta, label |-> ""] >>
                      ELSE << >>
       IN  [imports |-> imports] @@ Without(c, {"import", "importEta"})

(***************************************************************************)
(* calculateChemical                                                       *)
(***************************************************************************)
\* imports.reduce((sum, i) => sum + (i.qty || 0), 0)
RECURSIVE SumQty(_)
SumQty(imports) ==
  IF imports = << >> THEN 0
  ELSE SumQty(SubSeq(imports, 1, Len(imports) - 1)) + OrZero(imports[Len(imports)], "qty")

\* imports.filter(i => (i.qty || 0) > 0 && i.eta)
FilterWithEta(imports) == SelectSeq(imports, LAMBDA i : OrZero(i, "qty") > 0 /\ HasEta(i))

\* imports.filter(i => (i.qty || 0) > 0 && !i.eta)
FilterWithoutEta(imports) == SelectSeq(imports, LAMBDA i : OrZero(i, "qty") > 0 /\ ~HasEta(i))

\* variant: an unstable insertion, x goes before the elements that compare equal
RECURSIVE InsertByEtaUnstable(_, _)
InsertByEtaUnstable(sorted, x) ==
  IF sorted = << >> THEN << x >>
  ELSE IF localeCompare(sorted[Len(sorted)].eta, x.eta) < 0 THEN Append(sorted, x)
  ELSE Append(InsertByEtaUnstable(SubSeq(sorted, 1, Len(sorted) - 1), x), sorted[Len(sorted)])

\* one insertion of Array.prototype.sort (stable): x goes after every element
\* that does not compare greater than it
RECURSIVE InsertByEta(_, _)
InsertByEta(sorted, x) ==
  IF sorted = << >> THEN << x >>
  ELSE IF localeCompare(sorted[Len(sorted)].eta, x.eta) <= 0 THEN Append(sorted, x)
  ELSE Append(InsertByEta(SubSeq(sorted, 1, Len(sorted) - 1), x), sorted[Len(sorted)])

\* .sort((a, b) => a.eta.localeCompare(b.eta))
RECURSIVE SortByEta(_)
SortByEta(seq) ==
  IF seq = << >> THEN << >>
  ELSE InsertByEta(SortByEta(SubSeq(seq, 1, Len(seq) - 1)), seq[Len(seq)])

SortedImports(imports) == SortByEta(FilterWithEta(imports)) \o FilterWithoutEta(imports)

\* imp.label || `Import ${idx + 1}` (idx is 0-based in the code, k is 1-based)
ShipLabel(imp, k) == IF HasLabel(imp) THEN imp.label ELSE "Import " \o ToString(k)

FactorySegment(immediateStock, immediateDays, unit) ==
  [type |-> "factory",
   label |-> "Factory + Local (" \o ToString(immediateStock) \o " " \o unit \o ")",
   startDay |-> Zero,
   endDay |-> immediateDays,
   days |-> immediateDays,
   qty |-> Num(immediateStock)]

GapSegment(cursor, etaDay, usePerDay, unit, shipLabel) ==
  LET gapDays == FSub(etaDay, cursor)
      gapQty == FMul(gapDays, Num(usePerDay))
  IN  [type |-> "gap",
       label |-> "GAP - Need " \o ToString(FCeil(gapQty)) \o " " \o unit
                   \o " (before " \o shipLabel \o ")",
       startDay |-> cursor,
       endDay |-> etaDay,
       days |-> gapDays,
       qty |-> gapQty]

\* variant: every import segment started at the arrival offset of the
\* reference day, the cursor left out
ImportSegmentAtZero(cursor, imp, usePerDay, unit, shipLabel) ==
  LET importDays == Frac(imp.qty, usePerDay)
  IN  [type |-> "import",
       label |-> shipLabel \o " (" \o ToString(imp.qty) \o " " \o unit \o ") - "
                   \o (IF HasEta(imp) THEN "ETA: " \o ToString(imp.eta) ELSE "No ETA"),
       startDay |-> Zero,
       endDay |-> importDays,
       days |-> importDays,
       qty |-> Num(imp.qty),
       eta |-> IF HasEta(imp) THEN imp.eta ELSE Null]

\* variant: endDay written as the duration alone, the cursor left out
ImportSegmentEndsAtDuration(cursor, imp, usePerDay, unit, shipLabel) ==
  LET importDays == Frac(imp.qty, usePerDay)
  IN  [type |-> "import",
       label |-> shipLabel \o " (" \o ToString(imp.qty) \o " " \o unit \o ") - "
                   \o (IF HasEta(imp) THEN "ETA: " \o ToString(imp.eta) ELSE "No ETA"),
       startDay |-> cursor,
       endDay |-> importDays,
       days |-> importDays,
       qty |-> Num(imp.qty),
       eta |-> IF HasEta(imp) THEN imp.eta ELSE Null]

ImportSegment(cursor, imp, usePerDay, unit, shipLabel) ==
  LET importDays == Frac(imp.qty, usePerDay)
  IN  [type |-> "import",
       label |-> shipLabel \o " (" \o ToString(imp.qty) \o " " \o unit \o ") - "
                   \o (IF HasEta(imp) THEN "ETA: " \o ToString(imp.eta) ELSE "No ETA"),
       startDay |-> cursor,
       endDay |-> FAdd(cursor, importDays),
       days |-> importDays,
       qty |-> Num(imp.qty),
       eta |-> IF HasEta(imp) THEN imp.eta ELSE Null]

\* variant: the gap test written with <=
GapBeforeInclusive(cursor, etaDay) == FLe(cursor, etaDay)

\* the gap test of the loop: if (cursor < etaDay)
GapBefore(cursor, etaDay) == FLt(cursor, etaDay)

\* Math.max(0, etaDaysFromNow)
EtaDay(refDate, eta) ==
  LET etaDaysFromNow == diffInDays(refDate, eta)
  IN  IF etaDaysFromNow > 0 THEN etaDaysFromNow ELSE 0

\* variant: after a gap the cursor is left where it was, the import segment
\* starts at the old cursor
ProcessImportCursorKept(st, imp, k, usePerDay, unit, refDate) ==
  LET shipLabel == ShipLabel(imp, k)
      importDays == Frac(imp.qty, usePerDay)
  IN  IF HasEta(imp)
      THEN LET etaDay == Num(EtaDay(refDate, imp.eta))
           IN  IF GapBefore(st.cursor, etaDay)
               THEN LET gap == GapSegment(st.cursor, etaDay, usePerDay, unit, shipLabel)
                    IN  [cursor |-> FAdd(st.cursor, importDays),
                         timeline |-> st.timeline \o
                            << gap, ImportSegment(st.cursor, imp, usePerDay, unit, shipLabel) >>,
                         totalGapDays |-> FAdd(st.totalGapDays, gap.days),
                         totalGapQty |-> FAdd(st.totalGapQty, gap.qty)]
               ELSE [st EXCEPT
                       !.cursor = FAdd(st.cursor, importDays),
                       !.timeline = Append(st.timeline,
                            ImportSegment(st.cursor, imp, usePerDay, unit, shipLabel))]
      ELSE [st EXCEPT
              !.cursor = FAdd(st.cursor, importDays),
              !.timeline = Append(st.timeline,
                   ImportSegment(st.cursor, imp, usePerDay, unit, shipLabel))]

\* one iteration of the loop over sortedImports; st is the loop state
\* [cursor, timeline, totalGapDays, totalGapQty]
ProcessImport(st, imp, k, usePerDay, unit, refDate) ==
  LET shipLabel == ShipLabel(imp, k)
      importDays == Frac(imp.qty, usePerDay)
  IN  IF HasEta(imp)
      THEN LET etaDay == Num(EtaDay(refDate, imp.eta))
           IN  IF GapBefore(st.cursor, etaDay)
               THEN LET gap == GapSegment(st.cursor, etaDay, usePerDay, unit, shipLabel)
                    IN  [cursor |-> FAdd(etaDay, importDays),
                         timeline |-> st.timeline \o
                            << gap, ImportSegment(etaDay, imp, usePerDay, unit, shipLabel) >>,
                         totalGapDays |-> FAdd(st.totalGapDays, gap.days),
                         totalGapQty |-> FAdd(st.totalGapQty, gap.qty)]
               ELSE [st EXCEPT
                       !.cursor = FAdd(st.cursor, importDays),
                       !.timeline = Append(st.timeline,
                            ImportSegment(st.cursor, imp, usePerDay, unit, shipLabel))]
      ELSE [st EXCEPT
              !.cursor = FAdd(st.cursor, importDays),
              !.timeline = Append(st.timeline,
                   ImportSegment(st.cursor, imp, usePerDay, unit, shipLabel))]

\* for (let idx = 0; idx < sortedImports.length; idx++) { ... }
RECURSIVE ProcessImports(_, _, _, _, _, _)
ProcessImports(st, sortedImports, k, usePerDay, unit, refDate) ==
  IF k > Len(sortedImports) THEN st
  ELSE ProcessImports(ProcessImport(st, sortedImports[k], k, usePerDay, unit, refDate),
                      sortedImports, k + 1, usePerDay, unit, refDate)

\* variant: the immediate-stock segment pushed without the test
InitialTimelineAlways(immediateStock, immediateDays, unit) ==
  [cursor |-> immediateDays,
   timeline |-> << FactorySegment(immediateStock, immediateDays, unit) >>,
   totalGapDays |-> Zero,
   totalGapQty |-> Zero]

\* the loop state before the first shipment: the immediate-stock segment is
\* pushed only if (immediateStock > 0)
InitialTimeline(immediateStock, immediateDays, unit) ==
  IF immediateStock > 0
  THEN [cursor |-> immediateDays,
        timeline |-> << FactorySegment(immediateStock, immediateDays, unit) >>,
        totalGapDays |-> Zero,
        totalGapQty |-> Zero]
  ELSE [cursor |-> Zero,
        timeline |-> << >>,
        totalGapDays |-> Zero,
        totalGapQty |-> Zero]

\* variant: the thresholds taken as exclusive bounds
ThresholdStatusExclusive(immediateDays) ==
  IF FLt(immediateDays, Num(3)) THEN "critical"
  ELSE IF FLt(immediateDays, Num(10)) THEN "warning"
  ELSE IF FLt(immediateDays, Num(20)) THEN "low"
  ELSE "ok"

\* status classification by immediateDays
ThresholdStatus(immediateDays) ==
  IF FLe(immediateDays, Num(3)) THEN "critical"
  ELSE IF FLe(immediateDays, Num(10)) THEN "warning"
  ELSE IF FLe(immediateDays, Num(20)) THEN "low"
  ELSE "ok"

\* variant: any gap sets 'warning', whatever the threshold status
GapBumpAlways(status, totalGapDays) ==
  IF FLt(Zero, totalGapDays) THEN "warning" ELSE status

\* if (totalGapDays > 0 && status === 'ok') status = 'warning'
GapBump(status, totalGapDays) ==
  IF FLt(Zero, totalGapDays) /\ status = "ok" THEN "warning" ELSE status

\* variant: no special case, the quotients are taken with usePerDay = 0
ZeroUseDivides(c, totalImport, total, immediateStock) ==
  [totalImport |-> totalImport,
   total |-> total,
   immediateStock |-> immediateStock,
   immediateDays |-> Frac(immediateStock, 0),
   totalDays |-> Frac(total, 0),
   totalMonths |-> FDiv(Frac(total, 0), Num(30)),
   status |-> ThresholdStatus(Frac(immediateStock, 0)),
   gapDays |-> Zero,
   gapQty |-> Zero,
   timeline |-> << >>] @@ c

\* the early return for usePerDay === 0
ZeroUseResult(c, totalImport, total, immediateStock) ==
  [totalImport |-> totalImport,
   total |-> total,
   immediateStock |-> immediateStock,
   immediateDays |-> Infinity,
   totalDays |-> Infinity,
   totalMonths |-> Infinity,
   status |-> "ok",
   gapDays |-> Zero,
   gapQty |-> Zero,
   timeline |-> << >>] @@ c

calculateChemical(ch, refDate) ==
  LET c == migrateChemical(ch)
      usePerDay == OrZero(c, "usePerDay")
      imports == c.imports
      totalImport == SumQty(imports)
      factoryStock == OrZero(c, "factoryStock")
      localPurchase == OrZero(c, "localPurchase")
      total == factoryStock + totalImport + localPurchase
      immediateStock == factoryStock + localPurchase
      unit == IF Has(c, "unit") /\ c.unit # "" THEN c.unit ELSE "bags"
  IN  IF usePerDay = 0
      THEN ZeroUseResult(c, totalImport, total, immediateStock)
      ELSE
        LET immediateDays == Frac(immediateStock, usePerDay)
            st0 == InitialTimeline(immediateStock, immediateDays, unit)
            st == ProcessImports(st0, SortedImports(imports), 1, usePerDay, unit, refDate)
            totalDays == Frac(total, usePerDay)
            totalMonths == FDiv(totalDays, Num(30))
            status == GapBump(ThresholdStatus(immediateDays), st.totalGapDays)
        IN  [totalImport |-> totalImport,
             total |-> total,
             immediateStock |-> immediateStock,
             immediateDays |-> immediateDays,
             totalDays |-> totalDays,
             totalMonths |-> totalMonths,
             status |-> status,
             gapDays |-> st.totalGapDays,
             gapQty |-> st.totalGapQty,
             timeline |-> st.timeline,
             timelineEndDay |-> st.cursor] @@ c

(***************************************************************************)
(* Inputs                                                                  *)
(***************************************************************************)
\* the shipments a record may hold: missing, zero and negative quantities,
\* undated and dated arrivals before, on and after the reference day
Shipments ==
  { [eta |-> DayStr(RefDay + 5), label |-> ""],
    [qty |-> 0, eta |-> Null, label |-> ""],
    [qty |-> -5, eta |-> DayStr(RefDay + 5), label |-> ""],
    [qty |-> 50, eta |-> Null, label |-> ""],
    [qty |-> 100, eta |-> Null, label |-> "Lot B"],
    [qty |-> 50, eta |-> DayStr(RefDay + 10), label |-> ""],
    [qty |-> 100, eta |-> DayStr(RefDay + 5), label |-> ""],
    [qty |-> 50, eta |-> DayStr(RefDay + 5), label |-> "Lot A"],
    [qty |-> 50, eta |-> DayStr(RefDay - 1), label |-> ""],
    [qty |-> 100, eta |-> DayStr(RefDay), label |-> ""],
    [qty |-> 50, eta |-> NoonStr(RefDay), label |-> ""],
    [qty |-> 50, eta |-> DayStr(RefDay + 21), label |-> ""] }

RECURSIVE SeqsUpTo(_, _)
SeqsUpTo(S, n) ==
  IF n = 0 THEN { << >> }
  ELSE LET shorter == SeqsUpTo(S, n - 1)
       IN  shorter \cup { Append(s, x) : s \in shorter, x \in S }

ImportLists == SeqsUpTo(Shipments, MaxImports)

\* a record is a function over a subset of its field names
OptField(name, values, missing) ==
  { [f \in {name} |-> v] : v \in values } \cup (IF missing THEN { << >> } ELSE {})

StockFields ==
  { a @@ b @@ u :
      a \in OptField("factoryStock", {0, 30, 100, 200, -30}, TRUE),
      b \in OptField("localPurchase", {1}, TRUE),
      u \in OptField("usePerDay", {0, 3, 10, -10}, TRUE) }

CurrentChemicals == { [imports |-> l] @@ s : l \in ImportLists, s \in StockFields }

LegacyChemicals ==
  { q @@ e @@ u @@ s :
      q \in OptField("import", {0, 50}, TRUE),
      e \in OptField("importEta", {DayStr(RefDay + 5)}, TRUE),
      u \in OptField("unit", {"kg"}, TRUE),
      s \in StockFields }

Chemicals == CurrentChemicals \cup LegacyChemicals

\* the reference date: a plain date (todayStr, a snapshot's date) or a
\* timestamp of the same day
RefDates == { DayStr(RefDay), NoonStr(RefDay) }

NoResult == << >>

(***************************************************************************)
(* State machine: one record is handed to calculateChemical                *)
(***************************************************************************)
\* the parts of the state a specification does not use
EngineIdle == chem = << >> /\ today = DayStr(RefDay) /\ result = NoResult /\ pc = "idle"

PortfolioIdle == chemicals = << >> /\ refArg = Null /\ clock = DayStr(RefDay) /\ view = NoResult

StoreIdle == store = << >> /\ lastReq = << >> /\ nreq = 0

BackendIdle == backend = "server" /\ procs = << >>

Init ==
  /\ chem \in Chemicals
  /\ today \in RefDates
  /\ result = NoResult
  /\ pc = "idle"
  /\ PortfolioIdle
  /\ StoreIdle
  /\ BackendIdle

Calculate ==
  /\ pc = "idle"
  /\ result' = calculateChemical(chem, today)
  /\ pc' = "done"
  /\ UNCHANGED <<chem, today>>
  /\ UNCHANGED <<portfolioVars, storeVars, backendVars>>

Next == Calculate

Spec == Init /\ [][Next]_vars

(***************************************************************************)
(* Properties of calculateChemical                                         *)
(***************************************************************************)
Done == pc = "done"

UsePerDay == OrZero(chem, "usePerDay")

Stock == OrZero(chem, "factoryStock") + OrZero(chem, "localPurchase")

\* the shipments of the record, legacy shape included
Imports == migrateChemical(chem).imports

Timeline == result.timeline

\* the end of whatever precedes position p of a timeline
EndBefore(tl, p) == IF p > 1 THEN tl[p - 1].endDay ELSE Zero

\* C1: a record whose usePerDay is 0 or missing gets status 'ok', the
\* sentinel Infinity (not a finite number) for immediateDays, totalDays and
\* totalMonths, gapDays = 0, gapQty = 0 and an empty timeline, whatever its
\* stock and imports
C1_ZeroUseIsUnbounded ==
  (Done /\ UsePerDay = 0) =>
    /\ result.status = "ok"
    /\ result.immediateDays = Infinity /\ ~IsFinite(result.immediateDays)
    /\ result.totalDays = Infinity
    /\ result.totalMonths = Infinity
    /\ result.gapDays = Zero
    /\ result.gapQty = Zero
    /\ result.timeline = << >>

C1_Witness ==
  /\ Done
  /\ ~Has(chem, "usePerDay")
  /\ Stock = 0
  /\ \E k \in 1..Len(Imports) : OrZero(Imports[k], "qty") > 0 /\ HasEta(Imports[k])
  /\ result.status = "ok"

\* C2: with usePerDay > 0 the timeline is contiguous and ordered: every
\* segment has 0 <= startDay <= endDay and days = endDay - startDay, every
\* segment after the first starts at the endDay of the one before it, and
\* timelineEndDay is the endDay of the last segment
C2_TimelineContiguous ==
  (Done /\ UsePerDay > 0) =>
    /\ \A p \in 1..Len(Timeline) :
         /\ FLe(Zero, Timeline[p].startDay)
         /\ FLe(Timeline[p].startDay, Timeline[p].endDay)
         /\ Timeline[p].days = FSub(Timeline[p].endDay, Timeline[p].startDay)
    /\ \A p \in 2..Len(Timeline) :
         /\ Timeline[p].startDay = Timeline[p - 1].endDay
         /\ FLe(Timeline[p - 1].startDay, Timeline[p].startDay)
    /\ Len(Timeline) > 0 => result.timelineEndDay = Timeline[Len(Timeline)].endDay

C2_Witness ==
  /\ Done
  /\ UsePerDay = 3
  /\ Len(Timeline) >= 4
  /\ Timeline[1].type = "factory"
  /\ \E p \in 1..Len(Timeline) : Timeline[p].type = "gap"
  /\ \E p \in 1..Len(Timeline) : Timeline[p].startDay.d > 1

\* the record without its k-th shipment
WithoutShipment(c, k) ==
  [c EXCEPT !.imports = SubSeq(c.imports, 1, k - 1) \o SubSeq(c.imports, k + 1, Len(c.imports))]

\* the fields calculateChemical derives (the copied input fields left out)
Derived(r) == Without(r, DOMAIN chem \cup {"imports"})

RECURSIVE SumPositiveQty(_)
SumPositiveQty(imports) ==
  IF imports = << >> THEN 0
  ELSE SumPositiveQty(SubSeq(imports, 1, Len(imports) - 1))
         + (IF OrZero(imports[Len(imports)], "qty") > 0 THEN imports[Len(imports)].qty ELSE 0)

\* C3: a shipment with quantity <= 0 (zero, negative or missing) is excluded
\* from the totals and from the timeline: totalImport is the sum of the
\* quantities > 0, total = factoryStock + localPurchase + that sum, and the
\* derived result equals that of the record with the shipment removed
C3_NonPositiveShipmentIgnored ==
  (Done /\ Has(chem, "imports")) =>
    /\ result.totalImport = SumPositiveQty(chem.imports)
    /\ result.total = Stock + SumPositiveQty(chem.imports)
    /\ \A k \in 1..Len(chem.imports) :
         OrZero(chem.imports[k], "qty") <= 0 =>
           Derived(result) = Derived(calculateChemical(WithoutShipment(chem, k), today))

\* the part of C3 that the code satisfies: a shipment whose quantity is zero
\* or missing changes nothing in the derived result
C3_ZeroShipmentIgnored ==
  (Done /\ Has(chem, "imports")) =>
    \A k \in 1..Len(chem.imports) :
      OrZero(chem.imports[k], "qty") = 0 =>
        Derived(result) = Derived(calculateChemical(WithoutShipment(chem, k), today))

\* the arrival day offset of a dated shipment: Math.max(0, diffInDays(today, eta))
ArrivalOffset(eta) ==
  LET d == diffInDays(today, eta) IN Num(IF d > 0 THEN d ELSE 0)

RECURSIVE SumGaps(_, _)
SumGaps(tl, field) ==
  IF tl = << >> THEN Zero
  ELSE LET rest == SumGaps(SubSeq(tl, 1, Len(tl) - 1), field)
           s == tl[Len(tl)]
       IN  IF s.type = "gap" THEN FAdd(rest, s[field]) ELSE rest

Intervals(tl) == [p \in 1..Len(tl) |-> <<tl[p].type, tl[p].startDay, tl[p].endDay>>]

ScenarioB ==
  [factoryStock |-> 30, usePerDay |-> 10,
   imports |-> << [qty |-> 100, eta |-> DayStr(RefDay + 5), label |-> ""] >>]

\* C4: for each dated shipment with quantity > 0 and usePerDay > 0: if the
\* cursor is below the arrival day offset, one gap [cursor, offset) of
\* quantity (offset - cursor) * usePerDay stands directly before the import
\* segment, and gapDays and gapQty are the sums of those gaps; otherwise no
\* gap stands before it; the import segment is
\* [max(cursor, offset), max(cursor, offset) + quantity / usePerDay).
\* Stock 30, use 10, one shipment of 100 at +5 days: gap [3,5) of 20,
\* import [5,15), gapDays 2
C4_GapBeforeDatedShipment ==
  (Done /\ UsePerDay > 0) =>
    /\ \A p \in 1..Len(Timeline) :
         (Timeline[p].type = "import" /\ Timeline[p].eta # Null) =>
           LET seg == Timeline[p]
               offset == ArrivalOffset(seg.eta)
               gapBefore == p > 1 /\ Timeline[p - 1].type = "gap"
               cursor == IF gapBefore THEN EndBefore(Timeline, p - 1) ELSE EndBefore(Timeline, p)
           IN  /\ gapBefore <=> FLt(cursor, offset)
               /\ gapBefore =>
                    /\ Timeline[p - 1].startDay = cursor
                    /\ Timeline[p - 1].endDay = offset
                    /\ Timeline[p - 1].days = FSub(offset, cursor)
                    /\ Timeline[p - 1].qty = FMul(FSub(offset, cursor), Num(UsePerDay))
               /\ seg.startDay = FMax(cursor, offset)
               /\ seg.endDay = FAdd(FMax(cursor, offset), FDiv(seg.qty, Num(UsePerDay)))
    /\ result.gapDays = SumGaps(Timeline, "days")
    /\ result.gapQty = SumGaps(Timeline, "qty")
    /\ chem = ScenarioB =>
         /\ Intervals(Timeline) = << <<"factory", Num(0), Num(3)>>,
                                     <<"gap", Num(3), Num(5)>>,
                                     <<"import", Num(5), Num(15)>> >>
         /\ Timeline[2].qty = Num(20)
         /\ result.gapQty = Num(20)
         /\ result.gapDays = Num(2)

C4_Witness ==
  /\ Done
  /\ chem = ScenarioB
  /\ Len(Timeline) = 3
  /\ Timeline[2].type = "gap"

\* the positions of the shipments with quantity > 0
PositiveIdx(imports) == { k \in 1..Len(imports) : OrZero(imports[k], "qty") > 0 }

\* shipment a is processed before shipment b
ProcessedBefore(imports, a, b) ==
  \/ HasEta(imports[a]) /\ ~HasEta(imports[b])
  \/ /\ HasEta(imports[a]) /\ HasEta(imports[b])
     /\ \/ DateMs(imports[a].eta) < DateMs(imports[b].eta)
        \/ DateMs(imports[a].eta) = DateMs(imports[b].eta) /\ a < b
  \/ ~HasEta(imports[a]) /\ ~HasEta(imports[b]) /\ a < b

\* the place of shipment a in the processing order
Rank(imports, a) ==
  1 + Cardinality({ b \in PositiveIdx(imports) : ProcessedBefore(imports, b, a) })

ImportSegments(tl) == SelectSeq(tl, LAMBDA s : s.type = "import")

ScenarioCDatedFirst ==
  [usePerDay |-> 10,
   imports |-> << [qty |-> 50, eta |-> DayStr(RefDay + 10), label |-> ""],
                  [qty |-> 50, eta |-> Null, label |-> ""] >>]

ScenarioCUndatedFirst ==
  [usePerDay |-> 10,
   imports |-> << [qty |-> 50, eta |-> Null, label |-> ""],
                  [qty |-> 50, eta |-> DayStr(RefDay + 10), label |-> ""] >>]

\* C5: the import segments stand in processing order: the dated shipments
\* with quantity > 0 ascending by arrival date, equal dates in input order,
\* then the undated ones in input order.  No immediate stock, use 10, a
\* shipment of 50 at +10 days and an undated one of 50, in either input
\* order: gap [0,10), import [10,15), undated import [15,20)
C5_ProcessingOrder ==
  (Done /\ UsePerDay # 0) =>
    /\ Len(ImportSegments(Timeline)) = Cardinality(PositiveIdx(Imports))
    /\ \A a \in PositiveIdx(Imports) :
         LET seg == ImportSegments(Timeline)[Rank(Imports, a)]
         IN  /\ seg.qty = Num(Imports[a].qty)
             /\ seg.eta = OrNull(Imports[a], "eta")
    /\ chem \in {ScenarioCDatedFirst, ScenarioCUndatedFirst} =>
         /\ Intervals(Timeline) = << <<"gap", Num(0), Num(10)>>,
                                     <<"import", Num(10), Num(15)>>,
                                     <<"import", Num(15), Num(20)>> >>
         /\ Timeline[2].eta = DayStr(RefDay + 10)
         /\ Timeline[3].eta = Null

C5_Witness ==
  /\ Done
  /\ chem = ScenarioCUndatedFirst
  /\ Len(Timeline) = 3
  /\ Timeline[3].eta = Null

\* the status the thresholds give to stock / usePerDay, bounds inclusive
StatusOf(stock, use) ==
  IF stock <= 3 * use THEN "critical"
  ELSE IF stock <= 10 * use THEN "warning"
  ELSE IF stock <= 20 * use THEN "low"
  ELSE "ok"

\* C6: with usePerDay > 0 and no gap, the status follows
\* immediateDays = (factoryStock + localPurchase) / usePerDay with inclusive
\* upper bounds: <= 3 critical, <= 10 warning, <= 20 low, else ok
C6_StatusThresholds ==
  (Done /\ UsePerDay > 0 /\ result.gapDays = Zero) =>
    /\ result.immediateDays = Frac(Stock, UsePerDay)
    /\ result.status = StatusOf(Stock, UsePerDay)
    /\ result.immediateDays = Num(3) => result.status = "critical"
    /\ result.immediateDays = Num(10) => result.status = "warning"
    /\ result.immediateDays = Num(20) => result.status = "low"
    /\ result.immediateDays = Frac(201, 10) => result.status = "ok"

C6_Witness ==
  /\ Done
  /\ UsePerDay = 10
  /\ Stock = 200
  /\ result.gapDays = Zero
  /\ result.immediateDays = Num(20)
  /\ result.status = "low"

\* C7: the gap rule changes the status only from 'ok' to 'warning': above
\* 20 immediate days a gap gives 'warning', and a threshold status of
\* 'critical', 'warning' or 'low' stays as it is, gap or no gap
C7_GapOnlyRaisesOk ==
  Done =>
    LET days == result.immediateDays
        base == IF FLe(days, Num(3)) THEN "critical"
                ELSE IF FLe(days, Num(10)) THEN "warning"
                ELSE IF FLe(days, Num(20)) THEN "low"
                ELSE "ok"
    IN  /\ UsePerDay > 0 => base = StatusOf(Stock, UsePerDay)
        /\ (FLt(Num(20), days) /\ FLt(Zero, result.gapDays)) => result.status = "warning"
        /\ (FLt(Num(20), days) /\ ~FLt(Zero, result.gapDays)) => result.status = "ok"
        /\ base # "ok" => result.status = base

C7_Witness ==
  /\ Done
  /\ UsePerDay > 0
  /\ FLt(Num(20), result.immediateDays)
  /\ FLt(Zero, result.gapDays)
  /\ result.status = "warning"

\* the record has no shipment: the list is empty, or absent with no legacy
\* import quantity
NoImports ==
  IF Has(chem, "imports") THEN chem.imports = << >> ELSE OrZero(chem, "import") <= 0

\* C8: with usePerDay > 0 and no imports the timeline has at most one
\* segment, the immediate-stock segment [0, immediateDays), present only when
\* factoryStock + localPurchase > 0; totalDays = immediateDays; gapDays = 0
C8_NoImportsSingleSegment ==
  (Done /\ UsePerDay > 0 /\ NoImports) =>
    /\ Len(Timeline) <= 1
    /\ Stock > 0 =>
         /\ Len(Timeline) = 1
         /\ Intervals(Timeline) = << <<"factory", Zero, result.immediateDays>> >>
    /\ Stock <= 0 => Timeline = << >>
    /\ result.immediateDays = Frac(Stock, UsePerDay)
    /\ result.totalDays = result.immediateDays
    /\ result.gapDays = Zero

C8_Witness ==
  /\ Done
  /\ UsePerDay > 0
  /\ ~Has(chem, "imports")
  /\ NoImports
  /\ Stock > 0
  /\ Len(Timeline) = 1

\* C9: no gap logic for an undated shipment: its segment starts at the end
\* of whatever precedes it, no gap segment stands directly before it, and a
\* record whose shipments are all undated has gapDays = 0 and gapQty = 0
C9_UndatedHasNoGap ==
  Done =>
    /\ \A p \in 1..Len(Timeline) :
         (Timeline[p].type = "import" /\ Timeline[p].eta = Null) =>
           /\ Timeline[p].startDay = EndBefore(Timeline, p)
           /\ p > 1 => Timeline[p - 1].type # "gap"
    /\ (\A k \in 1..Len(Imports) : ~HasEta(Imports[k])) =>
         /\ result.gapDays = Zero
         /\ result.gapQty = Zero
         /\ \A p \in 1..Len(Timeline) : Timeline[p].type # "gap"

C9_Witness ==
  /\ Done
  /\ UsePerDay > 0
  /\ Len(Timeline) = 3
  /\ Timeline[1].type = "factory"
  /\ Timeline[2].type = "import" /\ Timeline[2].eta = Null
  /\ Timeline[3].type = "import" /\ Timeline[3].eta = Null

DateOnly(str) == DayStr(str[1])

\* the record (migrated) with every arrival reduced to its calendar date
AtMidnight(c) ==
  LET m == migrateChemical(c)
  IN  [m EXCEPT !.imports =
         [k \in 1..Len(m.imports) |->
            IF HasEta(m.imports[k])
            THEN [m.imports[k] EXCEPT !.eta = DateOnly(m.imports[k].eta)]
            ELSE m.imports[k]]]

\* C11: the arrival day offset of a dated shipment depends only on the
\* calendar dates of the reference date and of the arrival: it is the number
\* of calendar days between the two midnights, and a time of day in either
\* timestamp changes neither the offset nor the timeline
C11_OffsetByCalendarDate ==
  Done =>
    /\ \A k \in 1..Len(Imports) :
         HasEta(Imports[k]) => diffInDays(today, Imports[k].eta) = Imports[k].eta[1] - today[1]
    /\ UsePerDay # 0 =>
         Intervals(Timeline) =
           Intervals(calculateChemical(AtMidnight(chem), DateOnly(today)).timeline)

(***************************************************************************)
(* migrateChemical: the three implementations                              *)
(***************************************************************************)
\* c.unit === 'kg' ? 'bags' : (c.unit || 'bags')
NormalUnit(c) ==
  IF Has(c, "unit") /\ c.unit = "kg" THEN "bags"
  ELSE IF Has(c, "unit") /\ c.unit # "" THEN c.unit
  ELSE "bags"

\* variant: the test for an existing imports field left out, the list is
\* rebuilt from the legacy fields on every call
serverMigrateAlwaysRebuilds(c) ==
  LET oldQty == OrZero(c, "import")
      oldEta == OrNull(c, "importEta")
      imports == IF oldQty > 0
                 THEN << [qty |-> oldQty, eta |-> oldEta, label |-> ""] >>
                 ELSE << >>
  IN  [imports |-> imports, unit |-> NormalUnit(c)] @@ Without(c, {"import", "importEta"})

\* server.js
serverMigrateChemical(c) ==
  IF Has(c, "imports")
  THEN IF Has(c, "unit") /\ c.unit = "kg" THEN [c EXCEPT !.unit = "bags"] ELSE c
  ELSE LET oldQty == OrZero(c, "import")
           oldEta == OrNull(c, "importEta")
           imports == IF oldQty > 0
                      THEN << [qty |-> oldQty, eta |-> oldEta, label |-> ""] >>
                      ELSE << >>
       IN  [imports |-> imports, unit |-> NormalUnit(c)] @@ Without(c, {"import", "importEta"})

\* the blob storage module
blobMigrateChemical(c) ==
  IF Has(c, "imports")
  THEN IF Has(c, "unit") /\ c.unit = "kg" THEN [c EXCEPT !.unit = "bags"] ELSE c
  ELSE LET oldQty == OrZero(c, "import")
           oldEta == OrNull(c, "importEta")
           imports == IF oldQty > 0
                      THEN << [qty |-> oldQty, eta |-> oldEta, label |-> ""] >>
                      ELSE << >>
       IN  [imports |-> imports, unit |-> NormalUnit(c)] @@ Without(c, {"import", "importEta"})

Impls == {"server", "blob", "client"}

Migrate(impl, c) ==
  CASE impl = "server" -> serverMigrateChemical(c)
    [] impl = "blob" -> blobMigrateChemical(c)
    [] impl = "client" -> migrateChemical(c)

\* records of both shapes, with leftover legacy fields beside an imports list
MigrateInputs ==
  { [id |-> "c1"] @@ l @@ q @@ e @@ u @@ f :
      l \in OptField("imports",
                     { << >>, << [qty |-> 100, eta |-> DayStr(RefDay + 10), label |-> "Lot B"] >> },
                     TRUE),
      q \in OptField("import", {0, 50, -5}, TRUE),
      e \in OptField("importEta", {DayStr(RefDay + 5)}, TRUE),
      u \in OptField("unit", {"kg", "bags", "L"}, TRUE),
      f \in OptField("factoryStock", {30}, TRUE) }

(***************************************************************************)
(* State machine: one record is migrated, then migrated again              *)
(***************************************************************************)
InitMigrate ==
  /\ chem \in MigrateInputs
  /\ today = DayStr(RefDay)
  /\ result = NoResult
  /\ pc = "idle"
  /\ PortfolioIdle
  /\ StoreIdle
  /\ BackendIdle

MigrateFirst(impl) ==
  /\ pc = "idle"
  /\ result' = Migrate(impl, chem)
  /\ pc' = impl
  /\ UNCHANGED <<chem, today, portfolioVars, storeVars, backendVars>>

MigrateAgain(impl) ==
  /\ pc = impl
  /\ result' = Migrate(impl, result)
  /\ pc' = impl \o "2"
  /\ UNCHANGED <<chem, today, portfolioVars, storeVars, backendVars>>

NextMigrate == \E impl \in Impls : MigrateFirst(impl) \/ MigrateAgain(impl)

SpecMigrate == InitMigrate /\ [][NextMigrate]_vars

(***************************************************************************)
(* Properties of migrate                                                   *)
(***************************************************************************)
\* C12: migrate is idempotent for every record, legacy or current:
\* migrate(migrate(x)) equals migrate(x) field for field, and a record that
\* has an imports field (even empty, even beside leftover legacy fields)
\* keeps its imports list
C12_MigrateIdempotent ==
  \A impl \in Impls :
    /\ pc = impl \o "2" => result = Migrate(impl, chem)
    /\ (pc \in {impl, impl \o "2"} /\ Has(chem, "imports")) => result.imports = chem.imports

C12_Witness ==
  /\ pc = "server2"
  /\ ~Has(chem, "imports")
  /\ OrZero(chem, "import") > 0
  /\ Has(chem, "unit") /\ chem.unit = "kg"
  /\ Len(result.imports) = 1
  /\ result.unit = "bags"

\* the record with unit 'kg' turned into 'bags' and nothing else changed
KgToBags(c) == IF Has(c, "unit") /\ c.unit = "kg" THEN [c EXCEPT !.unit = "bags"] ELSE c

\* C13: migrate of a record that has an imports field returns the record
\* with every field unchanged except that unit 'kg' becomes 'bags', in each
\* implementation (server, blob storage, client calculation module)
C13_CurrentRecordOnlyUnitNormalized ==
  \A impl \in Impls :
    (pc = impl /\ Has(chem, "imports")) => result = KgToBags(chem)

\* the part of C13 that holds: the server and the blob storage implementation
C13_ServerAndBlobNormalizeUnit ==
  \A impl \in {"server", "blob"} :
    (pc = impl /\ Has(chem, "imports")) => result = KgToBags(chem)

\* C14: migrate of a legacy record (no imports field) returns a record whose
\* imports hold exactly one shipment {legacy quantity, legacy importEta or
\* null, label ''} when the legacy quantity is > 0 and are empty otherwise,
\* without the legacy import and importEta fields, with unit 'bags' when
\* the unit was 'kg' or missing, and with the other fields unchanged
C14_LegacyRecordMigrated ==
  \A impl \in {"server", "client"} :
    (pc = impl /\ ~Has(chem, "imports")) =>
      /\ result.imports =
           IF OrZero(chem, "import") > 0
           THEN << [qty |-> chem["import"], eta |-> OrNull(chem, "importEta"), label |-> ""] >>
           ELSE << >>
      /\ ~Has(result, "import")
      /\ ~Has(result, "importEta")
      /\ (~Has(chem, "unit") \/ chem.unit = "kg") => (Has(result, "unit") /\ result.unit = "bags")
      /\ \A f \in DOMAIN chem \ {"import", "importEta", "unit"} :
           Has(result, f) /\ result[f] = chem[f]
      /\ (Has(chem, "unit") /\ chem.unit # "kg") => result.unit = chem.unit
      /\ DOMAIN result \subseteq (DOMAIN chem \cup {"imports", "unit"})

\* the part of C14 that holds: the server implementation
C14_ServerLegacyRecordMigrated ==
  (pc = "server" /\ ~Has(chem, "imports")) =>
    /\ result.imports =
         IF OrZero(chem, "import") > 0
         THEN << [qty |-> chem["import"], eta |-> OrNull(chem, "importEta"), label |-> ""] >>
         ELSE << >>
    /\ ~Has(result, "import")
    /\ ~Has(result, "importEta")
    /\ (~Has(chem, "unit") \/ chem.unit = "kg") => (Has(result, "unit") /\ result.unit = "bags")
    /\ \A f \in DOMAIN chem \ {"import", "importEta", "unit"} :
         Has(result, f) /\ result[f] = chem[f]
    /\ (Has(chem, "unit") /\ chem.unit # "kg") => result.unit = chem.unit

(***************************************************************************)
(* calculateAll                                                            *)
(***************************************************************************)
MaxChemicals == 3

MaxTicks == 1

\* new Date().toISOString().split('T')[0]
todayStr(now) == DayStr(now[1])

\* variant: the reference date passed by the caller is dropped, the clock is
\* read on every call
EffectiveTodayFromClock(arg, now) == todayStr(now)

\* the default parameter: today = todayStr() when the caller passes none
EffectiveToday(arg, now) == IF arg = Null THEN todayStr(now) ELSE arg

\* variant: the derived records collected in reverse (unshift for push)
CalculatedReversed(chems, refDate) ==
  [i \in 1..Len(chems) |-> calculateChemical(chems[Len(chems) + 1 - i], refDate)]

\* chemicals.map(c => calculateChemical(c, today))
Calculated(chems, refDate) ==
  [i \in 1..Len(chems) |-> calculateChemical(chems[i], refDate)]

WithStatus(calculated, status) == SelectSeq(calculated, LAMBDA c : c.status = status)

\* variant: the gap filter written with >=
WithGapsInclusive(calculated) == SelectSeq(calculated, LAMBDA c : FLe(Zero, c.gapDays))

WithGaps(calculated) == SelectSeq(calculated, LAMBDA c : FLt(Zero, c.gapDays))

\* variant: ok taken as the rest after critical and warning, low forgotten
SummaryOkAsRest(calculated) ==
  [total |-> Len(calculated),
   critical |-> Len(WithStatus(calculated, "critical")),
   warning |-> Len(WithStatus(calculated, "warning")),
   low |-> Len(WithStatus(calculated, "low")),
   ok |-> Len(calculated) - Len(WithStatus(calculated, "critical"))
            - Len(WithStatus(calculated, "warning")),
   withGaps |-> Len(WithGaps(calculated))]

Summary(calculated) ==
  [total |-> Len(calculated),
   critical |-> Len(WithStatus(calculated, "critical")),
   warning |-> Len(WithStatus(calculated, "warning")),
   low |-> Len(WithStatus(calculated, "low")),
   ok |-> Len(WithStatus(calculated, "ok")),
   withGaps |-> Len(WithGaps(calculated))]

calculateAll(chems, refDate) ==
  LET calculated == Calculated(chems, refDate)
  IN  [chemicals |-> calculated,
       summary |-> Summary(calculated),
       criticalItems |-> WithStatus(calculated, "critical"),
       warningItems |-> WithStatus(calculated, "warning"),
       gapItems |-> WithGaps(calculated)]

\* variant: the sort applied to the record's own imports array
InputSortedInPlace(ch, refDate) ==
  IF Has(ch, "imports") THEN [ch EXCEPT !.imports = SortedImports(ch.imports)] ELSE ch

\* the argument object after calculateChemical returned.  The calls that
\* write to an object are delete (on the copy made by the spread in
\* migrateChemical), sort (on the array filter returned) and push (on the
\* local timeline): none of them reaches the argument
InputAfterCalculate(ch, refDate) == ch

\* the argument array after calculateAll returned: map and filter build new
\* arrays
InputAfterCalculateAll(chems, refDate) ==
  [i \in 1..Len(chems) |-> InputAfterCalculate(chems[i], refDate)]

\* the records of a collection: critical, warning with a gap, low, ok, no
\* consumption, ok by its stock with a late arrival, critical with a gap, arrivals out of date order, legacy shape
ChemKinds ==
  { [factoryStock |-> 30, usePerDay |-> 10, imports |-> << >>],
    [factoryStock |-> 100, usePerDay |-> 10,
     imports |-> << [qty |-> 50, eta |-> DayStr(RefDay + 21), label |-> ""] >>],
    [factoryStock |-> 200, usePerDay |-> 10, imports |-> << >>],
    [factoryStock |-> 200, localPurchase |-> 1, usePerDay |-> 10, imports |-> << >>],
    [factoryStock |-> 30, imports |-> << >>],
    [factoryStock |-> 200, localPurchase |-> 1, usePerDay |-> 10,
     imports |-> << [qty |-> 50, eta |-> DayStr(RefDay + 21), label |-> ""] >>],
    [usePerDay |-> 10,
     imports |-> << [qty |-> 50, eta |-> DayStr(RefDay + 10), label |-> ""],
                    [qty |-> 100, eta |-> DayStr(RefDay + 5), label |-> ""] >>],
    [factoryStock |-> 30, usePerDay |-> 10, unit |-> "kg",
     import |-> 50, importEta |-> DayStr(RefDay + 5)] }

\* collections of records with pairwise distinct ids
Collections ==
  { [i \in 1..Len(s) |-> [id |-> "chem_" \o ToString(i)] @@ s[i]] :
      s \in SeqsUpTo(ChemKinds, MaxChemicals) }

(***************************************************************************)
(* State machine: a collection is handed to calculateAll, with or without  *)
(* a reference date, while the wall clock advances                         *)
(***************************************************************************)
InitAll ==
  /\ chemicals \in Collections
  /\ refArg \in {Null} \cup RefDates
  /\ clock = DayStr(RefDay)
  /\ view = NoResult
  /\ EngineIdle
  /\ StoreIdle
  /\ BackendIdle

CalculateAll ==
  /\ view' = calculateAll(chemicals, EffectiveToday(refArg, clock))
  /\ chemicals' = InputAfterCalculateAll(chemicals, EffectiveToday(refArg, clock))
  /\ UNCHANGED <<refArg, clock, engineVars, storeVars, backendVars>>

Tick ==
  /\ clock[1] < RefDay + MaxTicks
  /\ clock' = NoonStr(clock[1] + 1)
  /\ UNCHANGED <<chemicals, refArg, view, engineVars, storeVars, backendVars>>

NextAll == CalculateAll \/ Tick

SpecAll == InitAll /\ [][NextAll]_vars

(***************************************************************************)
(* Properties of calculateAll                                              *)
(***************************************************************************)
Viewed == view # NoResult

\* the position of the record with this id in the input collection
Pos(id) == CHOOSE i \in 1..Len(chemicals) : chemicals[i].id = id

\* items holds, in input order, exactly the derived records at the positions in idx
IsSelection(items, idx) ==
  /\ Len(items) = Cardinality(idx)
  /\ \A a \in 1..Len(items) :
       /\ Pos(items[a].id) \in idx
       /\ items[a] = view.chemicals[Pos(items[a].id)]
  /\ \A a \in 1..Len(items) : \A b \in 1..Len(items) :
       a < b => Pos(items[a].id) < Pos(items[b].id)

PosWithStatus(status) == { i \in 1..Len(view.chemicals) : view.chemicals[i].status = status }

PosWithGaps == { i \in 1..Len(view.chemicals) : FLt(Zero, view.chemicals[i].gapDays) }

\* C15: calculateAll preserves input order in every list it returns:
\* chemicals[i] is the derived view of records[i], and criticalItems,
\* warningItems and gapItems hold their records in input order, gapItems
\* exactly the records with gapDays > 0
C15_OrderPreserved ==
  Viewed =>
    /\ Len(view.chemicals) = Len(chemicals)
    /\ \A i \in 1..Len(chemicals) :
         /\ view.chemicals[i].id = chemicals[i].id
         /\ refArg # Null => view.chemicals[i] = calculateChemical(chemicals[i], refArg)
    /\ IsSelection(view.criticalItems, PosWithStatus("critical"))
    /\ IsSelection(view.warningItems, PosWithStatus("warning"))
    /\ IsSelection(view.gapItems, PosWithGaps)

C15_Witness ==
  /\ Viewed
  /\ Len(chemicals) = 3
  /\ Len(view.gapItems) = 2
  /\ view.gapItems[1].status = "critical"
  /\ view.gapItems[2].status = "warning"
  /\ Len(view.criticalItems) = 2

ScenarioD ==
  << [id |-> "chem_1", factoryStock |-> 30, usePerDay |-> 10, imports |-> << >>],
     [id |-> "chem_2", factoryStock |-> 100, usePerDay |-> 10,
      imports |-> << [qty |-> 50, eta |-> DayStr(RefDay + 21), label |-> ""] >>],
     [id |-> "chem_3", factoryStock |-> 200, localPurchase |-> 1, usePerDay |-> 10,
      imports |-> << >>] >>

\* C16: summary.total is the number of records, critical / warning / low /
\* ok the number of derived records with that status, withGaps the number
\* with gapDays > 0; an empty collection gives an all-zero summary and empty
\* lists; one critical record, one warning record with a gap and one ok
\* record give {total 3, critical 1, warning 1, low 0, ok 1, withGaps 1}
C16_SummaryCounts ==
  Viewed =>
    /\ view.summary.total = Len(chemicals)
    /\ view.summary.critical = Cardinality(PosWithStatus("critical"))
    /\ view.summary.warning = Cardinality(PosWithStatus("warning"))
    /\ view.summary.low = Cardinality(PosWithStatus("low"))
    /\ view.summary.ok = Cardinality(PosWithStatus("ok"))
    /\ view.summary.withGaps = Cardinality(PosWithGaps)
    /\ chemicals = << >> =>
         /\ view.summary = [total |-> 0, critical |-> 0, warning |-> 0,
                            low |-> 0, ok |-> 0, withGaps |-> 0]
         /\ view.chemicals = << >>
         /\ view.criticalItems = << >>
         /\ view.warningItems = << >>
         /\ view.gapItems = << >>
    /\ chemicals = ScenarioD =>
         view.summary = [total |-> 3, critical |-> 1, warning |-> 1,
                         low |-> 0, ok |-> 1, withGaps |-> 1]

C16_Witness ==
  /\ Viewed
  /\ chemicals = ScenarioD
  /\ view.summary.withGaps = 1
  /\ view.chemicals[2].status = "warning"

C18_DeterministicInReferenceDate ==
  [][(refArg # Null /\ Viewed /\ view' # NoResult) => view' = view]_vars

C18_Witness ==
  /\ Viewed
  /\ refArg # Null
  /\ clock[1] > RefDay
  /\ view = calculateAll(chemicals, refArg)
  /\ \E i \in 1..Len(chemicals) : FLt(Zero, view.chemicals[i].gapDays)

(***************************************************************************)
(* The persisted document and the snapshot endpoints                       *)
(***************************************************************************)
SnapshotCap == 90

MaxRequests == 3

\* /^\d{4}-\d{2}-\d{2}$/.test(str): a plain calendar date, nothing after it
MatchesDate(str) == str[2] = 0

\* JSON.parse(JSON.stringify(x)) of a value that was itself parsed from the
\* JSON file: the same value in a new object
DeepCopy(x) == x

\* variant: slice(0, 90), the first ninety kept
KeepFirst(snaps) ==
  IF Len(snaps) > SnapshotCap THEN SubSeq(snaps, 1, SnapshotCap) ELSE snaps

\* if (length > 90) snapshots = snapshots.slice(-90)
KeepLast(snaps) ==
  IF Len(snaps) > SnapshotCap
  THEN SubSeq(snaps, Len(snaps) - SnapshotCap + 1, Len(snaps))
  ELSE snaps

\* data.snapshots.filter(s => s.date !== date)
WithoutDate(snaps, date) == SelectSeq(snaps, LAMBDA sn : sn.date # date)

\* findIndex(s => s.date === date), 0 for -1
FindIndex(snaps, date) ==
  IF \E i \in 1..Len(snaps) : snaps[i].date = date
  THEN CHOOSE i \in 1..Len(snaps) :
         /\ snaps[i].date = date
         /\ \A j \in 1..(i - 1) : snaps[j].date # date
  ELSE 0

\* the three conditional assignments of PUT /api/snapshot/:date
PutFields(sn, body) ==
  [date |-> IF Has(body, "date") THEN body.date ELSE sn.date,
   chemicals |-> IF Has(body, "chemicals") THEN body.chemicals ELSE sn.chemicals,
   config |-> IF Has(body, "config") THEN body.config ELSE sn.config]

\* the two backends of the endpoints: the file-backed server and the
\* blob-backed handlers
Backends == { "server", "blob" }

\* migrateData of the blob storage: every record of the document and of
\* every snapshot through migrateChemical
blobMigrateData(doc) ==
  [doc EXCEPT
     !.chemicals = [i \in 1..Len(@) |-> blobMigrateChemical(@[i])],
     !.snapshots = [k \in 1..Len(@) |->
        [@[k] EXCEPT !.chemicals = [i \in 1..Len(@) |-> blobMigrateChemical(@[i])]]]]

\* readData: the server parses the file, the blob storage parses and migrates
readData(kind, doc) == IF kind = "blob" THEN blobMigrateData(doc) ELSE doc

StoreConfig == [shifts |-> [EVA |-> 2, EVR |-> 2]]

OtherConfig == [shifts |-> [EVA |-> 3, EVR |-> 2]]

\* a collection as the form saves it with unit 'kg' chosen, and a record
\* of the legacy shape
KgChemicals ==
  << [id |-> "chem_1", factoryStock |-> 30, usePerDay |-> 10, unit |-> "kg",
      imports |-> << >>],
     [id |-> "chem_2", factoryStock |-> 30, usePerDay |-> 10, unit |-> "L",
      import |-> 50] >>

StoreChemicals ==
  << [id |-> "chem_1", factoryStock |-> 30, usePerDay |-> 10, imports |-> << >>] >>

\* a document holding n snapshots, one per day, inserted in date order
StoreWith(n) ==
  [config |-> StoreConfig,
   chemicals |-> StoreChemicals,
   snapshots |-> [i \in 1..n |-> [date |-> DayStr(i),
                                  chemicals |-> DeepCopy(StoreChemicals),
                                  config |-> DeepCopy(StoreConfig)]]]

\* the wall clock of the server when a request arrives
ServerClocks == { NoonStr(SnapshotCap + 1) }

\* the dates requests carry in their path: the oldest stored, the next one
\* and a new one
ParamDates == { DayStr(1), DayStr(2), DayStr(SnapshotCap + 1) }

PostBodies ==
  { << >>,
    [date |-> DayStr(1)],
    [date |-> DayStr(SnapshotCap + 2)],
    [date |-> NoonStr(1)] }

PutBodies ==
  { << >>,
    [chemicals |-> KgChemicals],
    [config |-> OtherConfig],
    [date |-> DayStr(2)],
    [date |-> DayStr(SnapshotCap + 2)],
    [chemicals |-> << >>, config |-> StoreConfig, date |-> NoonStr(1)] }

\* the bodies of PUT /api/data
DataBodies ==
  { << >>,
    [chemicals |-> KgChemicals],
    [chemicals |-> << >>, config |-> OtherConfig] }

Response(op, date, status) == [op |-> op, date |-> date, status |-> status]

InitStore ==
  /\ store \in { StoreWith(0), StoreWith(SnapshotCap - 1), StoreWith(SnapshotCap) }
  /\ lastReq = Response("none", Null, 0)
  /\ nreq = 0
  /\ backend \in Backends
  /\ procs = << >>
  /\ EngineIdle
  /\ PortfolioIdle

\* the document POST /api/snapshot writes: the snapshot of that date
\* removed, the copy pushed, the last 90 kept
WithSnapshot(data, snapshotDate) ==
  [data EXCEPT !.snapshots =
     KeepLast(Append(WithoutDate(@, snapshotDate),
                     [date |-> snapshotDate,
                      chemicals |-> DeepCopy(data.chemicals),
                      config |-> DeepCopy(data.config)]))]

\* the document PUT /api/data writes
WithData(data, body) ==
  [data EXCEPT
     !.chemicals = IF Has(body, "chemicals") THEN body.chemicals ELSE @,
     !.config = IF Has(body, "config") THEN body.config ELSE @]

\* POST /api/snapshot
PostSnapshot(body, now) ==
  LET data == readData(backend, store)
      snapshotDate == IF Has(body, "date") THEN body.date ELSE todayStr(now)
  IN  /\ nreq < MaxRequests
      /\ nreq' = nreq + 1
      /\ IF ~MatchesDate(snapshotDate)
         THEN /\ lastReq' = Response("POST", snapshotDate, 400)
              /\ store' = store
         ELSE /\ lastReq' = Response("POST", snapshotDate, 200)
              /\ store' = WithSnapshot(data, snapshotDate)
      /\ UNCHANGED <<engineVars, portfolioVars, backendVars>>

\* PUT /api/snapshot/:date
PutSnapshot(date, body) ==
  LET data == readData(backend, store)
      idx == FindIndex(data.snapshots, date)
  IN  /\ nreq < MaxRequests
      /\ nreq' = nreq + 1
      /\ IF idx = 0
         THEN /\ lastReq' = Response("PUT", date, 404)
              /\ store' = store
         ELSE /\ lastReq' = Response("PUT", date, 200)
              /\ store' = [data EXCEPT !.snapshots[idx] = PutFields(@, body)]
      /\ UNCHANGED <<engineVars, portfolioVars, backendVars>>

\* DELETE /api/snapshot/:date
DeleteSnapshot(date) ==
  LET data == readData(backend, store)
      kept == WithoutDate(data.snapshots, date)
  IN  /\ nreq < MaxRequests
      /\ nreq' = nreq + 1
      /\ IF Len(kept) = Len(data.snapshots)
         THEN /\ lastReq' = Response("DELETE", date, 404)
              /\ store' = store
         ELSE /\ lastReq' = Response("DELETE", date, 200)
              /\ store' = [data EXCEPT !.snapshots = kept]
      /\ UNCHANGED <<engineVars, portfolioVars, backendVars>>

\* PUT /api/data
PutData(body) ==
  LET data == readData(backend, store)
  IN  /\ nreq < MaxRequests
      /\ nreq' = nreq + 1
      /\ lastReq' = Response("PUTDATA", Null, 200)
      /\ store' = WithData(data, body)
      /\ UNCHANGED <<engineVars, portfolioVars, backendVars>>

NextStore ==
  \/ \E body \in PostBodies : \E now \in ServerClocks : PostSnapshot(body, now)
  \/ \E date \in ParamDates : \E body \in PutBodies : PutSnapshot(date, body)
  \/ \E date \in ParamDates : DeleteSnapshot(date)
  \/ \E body \in DataBodies : PutData(body)

SpecStore == InitStore /\ [][NextStore]_vars

(***************************************************************************)
(* Properties of the snapshot store                                        *)
(***************************************************************************)
Snapshots == store.snapshots

\* the dates of the snapshots, in store order
DatesOf(snaps) == [i \in 1..Len(snaps) |-> snaps[i].date]

StoredDates(snaps) == { snaps[i].date : i \in 1..Len(snaps) }

\* C19: the snapshot collection is capped at 90: after every snapshot
\* request on a store of at most 90 snapshots the store holds at most 90,
\* and a POST of a new date on a full store evicts the snapshot inserted
\* longest ago (the first) and keeps the others, in their order, followed
\* by the posted one
C19_SnapshotCap ==
  [][/\ Len(Snapshots) <= SnapshotCap => Len(Snapshots') <= SnapshotCap
     /\ ( /\ lastReq'.op = "POST"
          /\ lastReq'.status = 200
          /\ Len(Snapshots) = SnapshotCap
          /\ lastReq'.date \notin StoredDates(Snapshots) )
        => /\ Len(Snapshots') = SnapshotCap
           /\ Snapshots'[SnapshotCap].date = lastReq'.date
           /\ DatesOf(SubSeq(Snapshots', 1, SnapshotCap - 1)) = DatesOf(Tail(Snapshots))]_vars

C19_Witness ==
  /\ nreq = 1
  /\ lastReq.op = "POST"
  /\ lastReq.status = 200
  /\ Len(Snapshots) = SnapshotCap
  /\ Snapshots[1].date = DayStr(2)
  /\ Snapshots[SnapshotCap].date = lastReq.date

\* C20: every snapshot in the store has a date of the shape YYYY-MM-DD
\* after any sequence of POST, PUT and DELETE snapshot requests, a PUT
\* whose body carries a date included
C20_SnapshotDatesWellFormed ==
  \A i \in 1..Len(Snapshots) : MatchesDate(Snapshots[i].date)

\* POST /api/snapshot alone: a date of another shape is answered 400 and
\* the store is left as it was
C20_PostRejectsMalformedDate ==
  [][(lastReq'.op = "POST" /\ ~MatchesDate(lastReq'.date))
       => (lastReq'.status = 400 /\ store' = store)]_vars

(***************************************************************************)
(* Further properties of calculateChemical                                 *)
(***************************************************************************)
MetricFields ==
  { "totalImport", "total", "immediateStock", "immediateDays", "totalDays",
    "totalMonths", "status", "gapDays", "gapQty", "timeline", "timelineEndDay" }

\* the derived metrics, the status and the timeline of a result
Metrics(r) == [f \in (DOMAIN r) \cap MetricFields |-> r[f]]

\* f set to 0 where the object has no f
FillZero(o, f) == IF f \in DOMAIN o THEN o ELSE [g \in {f} |-> 0] @@ o

\* the record with every missing number written as 0 and a missing list
\* (no legacy quantity either) written as the empty list
ZeroFilled(c) ==
  LET m == migrateChemical(c)
      n == FillZero(FillZero(FillZero(m, "factoryStock"), "localPurchase"), "usePerDay")
  IN  [n EXCEPT !.imports = [k \in 1..Len(m.imports) |-> FillZero(m.imports[k], "qty")]]

MissingNumber ==
  \/ \E f \in {"factoryStock", "localPurchase", "usePerDay", "imports"} : ~Has(chem, f)
  \/ \E k \in 1..Len(Imports) : ~Has(Imports[k], "qty")

C22_WitnessMissingQty ==
  /\ Done
  /\ UsePerDay > 0
  /\ ~Has(chem, "localPurchase")
  /\ \E k \in 1..Len(Imports) : ~Has(Imports[k], "qty")
  /\ Len(Timeline) = 2

\* the sum of the durations of the segments of the given types
RECURSIVE SumDays(_, _)
SumDays(tl, types) ==
  IF tl = << >> THEN Zero
  ELSE LET rest == SumDays(SubSeq(tl, 1, Len(tl) - 1), types)
           s == tl[Len(tl)]
       IN  IF s.type \in types THEN FAdd(rest, s.days) ELSE rest

NoNegativeShipment == \A k \in 1..Len(Imports) : OrZero(Imports[k], "qty") >= 0

\* C24: for usePerDay > 0 and shipment quantities >= 0 every unit of stock
\* is on the timeline once: timelineEndDay = totalDays + gapDays, the
\* durations of the immediate-stock and import segments sum to
\* total / usePerDay, gapDays is the sum of the durations of the gap
\* segments and gapQty = gapDays * usePerDay
C24_StockAccountedOnce ==
  (Done /\ UsePerDay > 0 /\ NoNegativeShipment) =>
    /\ result.timelineEndDay = FAdd(result.totalDays, result.gapDays)
    /\ SumDays(Timeline, {"factory", "import"}) = Frac(result.total, UsePerDay)
    /\ result.gapDays = SumDays(Timeline, {"gap"})
    /\ result.gapQty = FMul(result.gapDays, Num(UsePerDay))

\* C24 for records whose immediate stock is not negative
C24_NonNegativeStockAccountedOnce ==
  (Done /\ UsePerDay > 0 /\ NoNegativeShipment /\ Stock >= 0) =>
    /\ result.timelineEndDay = FAdd(result.totalDays, result.gapDays)
    /\ SumDays(Timeline, {"factory", "import"}) = Frac(result.total, UsePerDay)
    /\ result.gapDays = SumDays(Timeline, {"gap"})
    /\ result.gapQty = FMul(result.gapDays, Num(UsePerDay))

\* C25: for usePerDay > 0 no dated shipment is consumed before it arrives:
\* its import segment starts at or after max(0, arrival day offset), every
\* gap segment is followed at once by the import segment of a dated shipment
\* and ends at that shipment's arrival day offset, and no two gap segments
\* are adjacent
C25_NotConsumedBeforeArrival ==
  (Done /\ UsePerDay > 0) =>
    \A p \in 1..Len(Timeline) :
      /\ (Timeline[p].type = "import" /\ Timeline[p].eta # Null)
           => FLe(ArrivalOffset(Timeline[p].eta), Timeline[p].startDay)
      /\ Timeline[p].type = "gap"
           => /\ p < Len(Timeline)
              /\ Timeline[p + 1].type = "import"
              /\ Timeline[p + 1].eta # Null
              /\ Timeline[p].endDay = ArrivalOffset(Timeline[p + 1].eta)
              /\ Timeline[p + 1].startDay = Timeline[p].endDay

C25_Witness ==
  /\ Done
  /\ UsePerDay > 0
  /\ Len(Timeline) = 5
  /\ Timeline[2].type = "gap"
  /\ Timeline[4].type = "gap"
  /\ FLt(Timeline[3].endDay, Timeline[4].endDay)

(***************************************************************************)
(* Further properties of calculateAll                                      *)
(***************************************************************************)
\* C26: in every derived record status 'ok' implies gapDays = 0; hence no
\* record of gapItems has status 'ok', the four status counts add up to
\* summary.total and summary.withGaps is at most critical + warning + low
C26_OkHasNoGap ==
  Viewed =>
    /\ \A i \in 1..Len(view.chemicals) :
         view.chemicals[i].status = "ok" => view.chemicals[i].gapDays = Zero
    /\ \A a \in 1..Len(view.gapItems) : view.gapItems[a].status # "ok"
    /\ view.summary.critical + view.summary.warning + view.summary.low + view.summary.ok
         = view.summary.total
    /\ view.summary.withGaps
         <= view.summary.critical + view.summary.warning + view.summary.low

C26_Witness ==
  /\ Viewed
  /\ \E i \in 1..Len(chemicals) :
       /\ ThresholdStatus(view.chemicals[i].immediateDays) = "ok"
       /\ view.chemicals[i].status = "warning"
       /\ FLt(Zero, view.chemicals[i].gapDays)
  /\ \E i \in 1..Len(chemicals) : view.chemicals[i].status = "ok"
  /\ view.summary.withGaps = 2

\* the chemicals and config of the stored snapshots, in store order
Frozen(doc) ==
  [k \in 1..Len(doc.snapshots) |->
     [chemicals |-> doc.snapshots[k].chemicals, config |-> doc.snapshots[k].config]]

\* C21: a snapshot is a frozen copy: POST /api/snapshot stores the chemicals
\* and config exactly as they are in the document at that moment and leaves
\* the document's chemicals and config unchanged, and no PUT /api/data
\* changes the chemicals or config of a stored snapshot
C21_SnapshotIsFrozenCopy ==
  [][/\ (lastReq'.op = "POST" /\ lastReq'.status = 200)
          => /\ Snapshots'[Len(Snapshots')].chemicals = store.chemicals
             /\ Snapshots'[Len(Snapshots')].config = store.config
             /\ store'.chemicals = store.chemicals
             /\ store'.config = store.config
     /\ lastReq'.op = "PUTDATA" => Frozen(store') = Frozen(store)]_vars

\* C21 on the file-backed server alone
C21_ServerSnapshotIsFrozenCopy ==
  [][backend = "server" =>
       /\ (lastReq'.op = "POST" /\ lastReq'.status = 200)
            => /\ Snapshots'[Len(Snapshots')].chemicals = store.chemicals
               /\ Snapshots'[Len(Snapshots')].config = store.config
               /\ store'.chemicals = store.chemicals
               /\ store'.config = store.config
       /\ lastReq'.op = "PUTDATA" => Frozen(store') = Frozen(store)]_vars

\* C27: no two stored snapshots share a date after any sequence of POST,
\* PUT and DELETE snapshot requests on a store with pairwise distinct dates
C27_SnapshotDatesUnique ==
  \A i \in 1..Len(Snapshots) : \A j \in 1..Len(Snapshots) :
    i # j => Snapshots[i].date # Snapshots[j].date

\* POST /api/snapshot alone: a POST for a date that has a snapshot replaces
\* it, the store holds the new contents once, as its last entry
C27_PostReplaces ==
  [][(lastReq'.op = "POST" /\ lastReq'.status = 200)
       => /\ Snapshots'[Len(Snapshots')].date = lastReq'.date
          /\ \A i \in 1..(Len(Snapshots') - 1) : Snapshots'[i].date # lastReq'.date]_vars

(***************************************************************************)
(* The server's auto-migration on startup                                  *)
(***************************************************************************)
MaxFileRecords == 2

\* the records a data file may hold: current shape with unit 'bags' and
\* with unit 'kg', legacy shape with unit 'kg' and without a unit
FileRecords ==
  { [id |-> "c1", factoryStock |-> 30, unit |-> "bags", imports |-> << >>],
    [id |-> "c1", factoryStock |-> 30, unit |-> "kg",
     imports |-> << [qty |-> 50, eta |-> Null, label |-> ""] >>],
    [id |-> "c1", factoryStock |-> 30, unit |-> "kg", import |-> 50,
     importEta |-> DayStr(RefDay + 5)],
    [id |-> "c1", factoryStock |-> 30] }

FileCollections == SeqsUpTo(FileRecords, MaxFileRecords)

\* the data files found at startup: no snapshot or one
DataFiles ==
  { [config |-> StoreConfig, chemicals |-> cs, snapshots |-> << >>] :
      cs \in FileCollections }
  \cup
  { [config |-> StoreConfig, chemicals |-> cs,
     snapshots |-> << [date |-> DayStr(1), chemicals |-> sc, config |-> StoreConfig] >>] :
      cs \in FileCollections, sc \in FileCollections }

\* the object migrateData leaves in memory: every record of the document
\* and of every snapshot through migrateChemical
serverMigrated(doc) ==
  [doc EXCEPT
     !.chemicals = [i \in 1..Len(@) |-> serverMigrateChemical(@[i])],
     !.snapshots = [k \in 1..Len(@) |->
        [@[k] EXCEPT !.chemicals = [i \in 1..Len(@) |-> serverMigrateChemical(@[i])]]]]

\* m !== c || JSON.stringify(m) !== JSON.stringify(c), evaluated after
\* migrateChemical returned: for a record with imports m is c itself, with
\* the unit already rewritten in it, so neither test sees a difference; for
\* a record without imports m is a new object
RecordChanged(c) == ~Has(c, "imports")

\* the value migrateData returns
serverMigrateChanged(doc) ==
  \/ \E i \in 1..Len(doc.chemicals) : RecordChanged(doc.chemicals[i])
  \/ \E k \in 1..Len(doc.snapshots) : \E i \in 1..Len(doc.snapshots[k].chemicals) :
       RecordChanged(doc.snapshots[k].chemicals[i])

InitStartup ==
  /\ store \in DataFiles
  /\ lastReq = << >>
  /\ nreq = 0
  /\ pc = "idle"
  /\ chem = << >>
  /\ today = DayStr(RefDay)
  /\ result = NoResult
  /\ PortfolioIdle
  /\ BackendIdle

\* const data = readData(); if (migrateData(data)) writeData(data)
Startup ==
  /\ pc = "idle"
  /\ pc' = "started"
  /\ store' = IF serverMigrateChanged(readData(backend, store))
              THEN serverMigrated(readData(backend, store))
              ELSE store
  /\ UNCHANGED <<chem, today, result, lastReq, nreq, portfolioVars, backendVars>>

NextStartup == Startup

SpecStartup == InitStartup /\ [][NextStartup]_vars

Started == pc = "started"

IsMigrated(c) == Has(c, "imports") /\ (Has(c, "unit") => c.unit # "kg")

\* every record of the document and of every snapshot has imports and none
\* has unit 'kg'
FullyMigrated(doc) ==
  /\ \A i \in 1..Len(doc.chemicals) : IsMigrated(doc.chemicals[i])
  /\ \A k \in 1..Len(doc.snapshots) : \A i \in 1..Len(doc.snapshots[k].chemicals) :
       IsMigrated(doc.snapshots[k].chemicals[i])

\* C28: after the startup auto-migration the persisted document is fully
\* migrated: every chemical of the document and of every snapshot has an
\* imports field and none has unit 'kg', whatever the file held, a file
\* whose only outdated content is a current-shape record with unit 'kg'
\* included
C28_PersistedDocumentMigrated == Started => FullyMigrated(store)

\* the startup migration of a file that holds a record without imports
C28_MigratedWhenLegacyPresent ==
  [][(~Started /\ serverMigrateChanged(store)) => FullyMigrated(store')]_vars

(***************************************************************************)
(* The inventory table: edits of the collection and their saves            *)
(***************************************************************************)
MaxOps == 2

\* chemicals.findIndex(c => c.id === id), 0 for -1
IndexOfId(chems, id) ==
  IF \E i \in 1..Len(chems) : chems[i].id = id
  THEN CHOOSE i \in 1..Len(chems) :
         chems[i].id = id /\ \A j \in 1..(i - 1) : chems[j].id # id
  ELSE 0

\* what a handler does with the collection: onSave(updated), or return
Save(updated) == [saved |-> TRUE, chems |-> updated]

NoSave == [saved |-> FALSE, chems |-> << >>]

\* updated.splice(i, 1)
RemoveAt(seq, i) == SubSeq(seq, 1, i - 1) \o SubSeq(seq, i + 1, Len(seq))

\* updated.splice(i, 0, x), i counted from 0 on the array after the removal
InsertAt(seq, i, x) == SubSeq(seq, 1, i) \o << x >> \o SubSeq(seq, i + 1, Len(seq))

Swap(seq, i, j) == [seq EXCEPT ![i] = seq[j], ![j] = seq[i]]

handleDelete(chems, id) == Save(SelectSeq(chems, LAMBDA c : c.id # id))

\* handleFormSave: the edited record replaces the one with its id, a new
\* record goes to the end
handleFormSave(chems, editChem, chemData) ==
  IF editChem
  THEN Save([i \in 1..Len(chems) |-> IF chems[i].id = chemData.id THEN chemData ELSE chems[i]])
  ELSE Save(Append(chems, chemData))

\* handleQuickUpdate: input is what Number(value) gave
handleQuickUpdate(chems, id, field, input, now) ==
  IF input.nan THEN NoSave
  ELSE Save([i \in 1..Len(chems) |->
               IF chems[i].id = id
               THEN [f \in {field} |-> input.num] @@ [lastUpdated |-> todayStr(now)] @@ chems[i]
               ELSE chems[i]])

\* variant: the moved record inserted without being taken out first
moveItemKeepsSource(chems, fromId, toId) ==
  LET fromIdx == IndexOfId(chems, fromId)
      toIdx == IndexOfId(chems, toId)
  IN  IF fromId = toId THEN NoSave
      ELSE IF fromIdx = 0 \/ toIdx = 0 THEN NoSave
      ELSE Save(InsertAt(chems, toIdx - 1, chems[fromIdx]))

moveItem(chems, fromId, toId) ==
  LET fromIdx == IndexOfId(chems, fromId)
      toIdx == IndexOfId(chems, toId)
  IN  IF fromId = toId THEN NoSave
      ELSE IF fromIdx = 0 \/ toIdx = 0 THEN NoSave
      ELSE Save(InsertAt(RemoveAt(chems, fromIdx), toIdx - 1, chems[fromIdx]))

moveUp(chems, id) ==
  LET idx == IndexOfId(chems, id)
  IN  IF idx <= 1 THEN NoSave ELSE Save(Swap(chems, idx - 1, idx))

moveDown(chems, id) ==
  LET idx == IndexOfId(chems, id)
  IN  IF idx = 0 \/ idx >= Len(chems) THEN NoSave ELSE Save(Swap(chems, idx, idx + 1))

\* the collection the table starts from
ClientChemicals ==
  << [id |-> "chem_a", factoryStock |-> 30, localPurchase |-> 0, usePerDay |-> 10,
      imports |-> << >>, lastUpdated |-> DayStr(RefDay)],
     [id |-> "chem_b", factoryStock |-> 200, localPurchase |-> 0, usePerDay |-> 10,
      imports |-> << >>, lastUpdated |-> DayStr(RefDay)] >>

\* generateId: the time of the call and random digits; n is the number of
\* operations before this one
generateId(n) == "chem_" \o ToString(n)

\* emptyChemical() with the name filled in by the form
NewChemical(n, now) ==
  [id |-> generateId(n), factoryStock |-> 0, localPurchase |-> 0, usePerDay |-> 0,
   imports |-> << >>, lastUpdated |-> todayStr(now)]

\* what the inline inputs hand to handleQuickUpdate
QuickInputs ==
  { [field |-> "factoryStock", nan |-> FALSE, num |-> 45],
    [field |-> "localPurchase", nan |-> FALSE, num |-> 7],
    [field |-> "factoryStock", nan |-> TRUE, num |-> 0] }

IdsOf(chems) == { chems[i].id : i \in 1..Len(chems) }

\* the requests that have not been answered
Pending == { k \in 1..Len(procs) : procs[k].stage \in {"sent", "stored"} }

InitClient ==
  /\ chemicals = ClientChemicals
  /\ store = [config |-> StoreConfig, chemicals |-> ClientChemicals, snapshots |-> << >>]
  /\ procs = << >>
  /\ backend = "server"
  /\ nreq = 0
  /\ lastReq = [op |-> "none", id |-> "", saved |-> FALSE]
  /\ refArg = Null
  /\ clock = NoonStr(RefDay)
  /\ view = NoResult
  /\ EngineIdle

\* what an operation is about: a record and, for an inline edit, the field
\* and the number typed
On(id) == [id |-> id, field |-> "", num |-> 0]

OnField(id, input) == [id |-> id, field |-> input.field, num |-> input.num]

\* a handler of the table runs on the collection of the last render and,
\* unless it returns early, calls saveData, which sends PUT /api/data
Operate(op, what, outcome) ==
  /\ nreq < MaxOps
  /\ nreq' = nreq + 1
  /\ lastReq' = [op |-> op, id |-> what.id, saved |-> outcome.saved]
  /\ procs' = IF outcome.saved
              THEN Append(procs, [op |-> op, what |-> what, chems |-> outcome.chems, config |-> StoreConfig,
                                  base |-> chemicals, pending |-> Pending, stage |-> "sent"])
              ELSE procs
  /\ UNCHANGED <<chemicals, store, backend, refArg, clock, view, engineVars>>

AddChemical ==
  Operate("add", On(generateId(nreq)), handleFormSave(chemicals, FALSE, NewChemical(nreq, clock)))

EditChemical(id) ==
  /\ id \in IdsOf(chemicals)
  /\ Operate("edit", On(id),
       handleFormSave(chemicals, TRUE,
         [chemicals[IndexOfId(chemicals, id)] EXCEPT !.usePerDay = @ + 1]))

QuickUpdate(id, input) ==
  /\ id \in IdsOf(chemicals)
  /\ Operate("quick", OnField(id, input), handleQuickUpdate(chemicals, id, input.field, input, clock))

DeleteChemical(id) ==
  /\ id \in IdsOf(chemicals)
  /\ Operate("delete", On(id), handleDelete(chemicals, id))

MoveUp(id) == id \in IdsOf(chemicals) /\ Operate("moveUp", On(id), moveUp(chemicals, id))

MoveDown(id) == id \in IdsOf(chemicals) /\ Operate("moveDown", On(id), moveDown(chemicals, id))

MoveItem(fromId, toId) ==
  /\ fromId \in IdsOf(chemicals)
  /\ toId \in IdsOf(chemicals)
  /\ Operate("moveItem", On(fromId), moveItem(chemicals, fromId, toId))

\* the server handles one PUT /api/data
ServeSave(k) ==
  /\ procs[k].stage = "sent"
  /\ procs' = [procs EXCEPT ![k].stage = "stored"]
  /\ store' = WithData(readData(backend, store),
                       [chemicals |-> procs[k].chems, config |-> procs[k].config])
  /\ UNCHANGED <<chemicals, nreq, lastReq, backend, refArg, clock, view, engineVars>>

\* saveData after the await, res.ok: setChemicals(chems)
SaveAnswered(k) ==
  /\ procs[k].stage = "stored"
  /\ procs' = [procs EXCEPT ![k].stage = "done"]
  /\ chemicals' = procs[k].chems
  /\ UNCHANGED <<store, nreq, lastReq, backend, refArg, clock, view, engineVars>>

\* saveData after the await, the request failed: the catch branch
SaveFailed(k) ==
  /\ procs[k].stage = "sent"
  /\ procs' = [procs EXCEPT ![k].stage = "failed"]
  /\ UNCHANGED <<chemicals, store, nreq, lastReq, backend, refArg, clock, view, engineVars>>

AllIds == { "chem_a", "chem_b" } \cup { generateId(n) : n \in 0..MaxOps }

NextClient ==
  \/ AddChemical
  \/ \E id \in AllIds : EditChemical(id)
  \/ \E id \in AllIds : \E input \in QuickInputs : QuickUpdate(id, input)
  \/ \E id \in AllIds : DeleteChemical(id)
  \/ \E id \in AllIds : MoveUp(id)
  \/ \E id \in AllIds : MoveDown(id)
  \/ \E fromId \in AllIds : \E toId \in AllIds : MoveItem(fromId, toId)
  \/ \E k \in 1..Len(procs) : ServeSave(k)
  \/ \E k \in 1..Len(procs) : SaveAnswered(k)
  \/ \E k \in 1..Len(procs) : SaveFailed(k)

SpecClient == InitClient /\ [][NextClient]_vars

(***************************************************************************)
(* Properties of the inventory table                                       *)
(***************************************************************************)
DistinctIds(chems) ==
  \A i \in 1..Len(chems) : \A j \in 1..Len(chems) : i # j => chems[i].id # chems[j].id

Count(seq, x) == Cardinality({ i \in 1..Len(seq) : seq[i] = x })

\* a holds the records of b, each as often as b does, none altered
IsPermutation(a, b) ==
  /\ Len(a) = Len(b)
  /\ \A i \in 1..Len(b) : Count(a, b[i]) = Count(b, b[i])

\* the request a step has sent, if it sent one
Sent == Len(procs') = Len(procs) + 1

NewestRequest == procs'[Len(procs')]

\* C23: record ids stay unique and stable under the operations of the
\* table: the ids of the collection are pairwise distinct after every step,
\* an edit keeps every id at its position, an add appends a record with a
\* fresh id, a delete takes records out, a reorder yields a permutation of
\* the collection, and moveUp on the first and moveDown on the last record
\* change nothing
C23_IdsUniqueAndStable ==
  [][/\ DistinctIds(chemicals')
     /\ DistinctIds(store'.chemicals)
     /\ Sent =>
          /\ DistinctIds(NewestRequest.chems)
          /\ NewestRequest.op \in {"edit", "quick"} =>
               /\ Len(NewestRequest.chems) = Len(chemicals)
               /\ \A i \in 1..Len(chemicals) : NewestRequest.chems[i].id = chemicals[i].id
          /\ NewestRequest.op = "add" =>
               /\ NewestRequest.chems[Len(chemicals) + 1].id \notin IdsOf(chemicals)
               /\ SubSeq(NewestRequest.chems, 1, Len(chemicals)) = chemicals
          /\ NewestRequest.op = "delete" =>
               \E i \in 1..Len(chemicals) : NewestRequest.chems = RemoveAt(chemicals, i)
          /\ NewestRequest.op \in {"moveUp", "moveDown", "moveItem"} =>
               IsPermutation(NewestRequest.chems, chemicals)
     /\ ( /\ nreq' = nreq + 1
          /\ \/ lastReq'.op = "moveUp" /\ lastReq'.id = chemicals[1].id
             \/ lastReq'.op = "moveDown" /\ lastReq'.id = chemicals[Len(chemicals)].id )
        => (~Sent /\ chemicals' = chemicals /\ store' = store)]_vars

C23_Witness ==
  /\ Len(procs) = 2
  /\ procs[1].op = "add"
  /\ procs[2].op = "moveItem"
  /\ procs[2].stage = "done"
  /\ procs[2].pending = {}
  /\ Len(chemicals) = 3
  /\ chemicals[1].id = generateId(0)
  /\ store.chemicals = chemicals

C23_WitnessMoveUpFirst ==
  /\ lastReq.op = "moveUp"
  /\ lastReq.id = chemicals[1].id
  /\ ~lastReq.saved
  /\ nreq = 2
  /\ Len(procs) = 1

\* the collection holds the number of an inline edit in the field of its record
HoldsEdit(chems, w) == \E i \in 1..Len(chems) : chems[i].id = w.id /\ chems[i][w.field] = w.num

\* C29: no inline edit is lost: when two quick edits of different records
\* or different fields are issued one after the other, the second before the
\* first save has been answered, then once both saves have completed the
\* client's collection and the persisted collection hold both edited values
C29_NoQuickEditLost ==
  \A a \in 1..Len(procs) : \A b \in 1..Len(procs) :
    ( /\ b = a + 1
      /\ b = Len(procs)
      /\ procs[a].op = "quick"
      /\ procs[b].op = "quick"
      /\ procs[a].pending = {}
      /\ a \in procs[b].pending
      /\ <<procs[a].what.id, procs[a].what.field>> # <<procs[b].what.id, procs[b].what.field>>
      /\ procs[a].stage = "done"
      /\ procs[b].stage = "done" )
    => /\ HoldsEdit(chemicals, procs[a].what)
       /\ HoldsEdit(chemicals, procs[b].what)
       /\ HoldsEdit(store.chemicals, procs[a].what)
       /\ HoldsEdit(store.chemicals, procs[b].what)

\* two quick edits, the second issued after the first save was answered
C29_SequentialQuickEditsKept ==
  \A a \in 1..Len(procs) : \A b \in 1..Len(procs) :
    ( /\ b = a + 1
      /\ b = Len(procs)
      /\ procs[a].op = "quick"
      /\ procs[b].op = "quick"
      /\ procs[a].pending = {}
      /\ procs[b].pending = {}
      /\ <<procs[a].what.id, procs[a].what.field>> # <<procs[b].what.id, procs[b].what.field>>
      /\ procs[a].stage = "done"
      /\ procs[b].stage = "done" )
    => /\ HoldsEdit(chemicals, procs[a].what)
       /\ HoldsEdit(chemicals, procs[b].what)
       /\ HoldsEdit(store.chemicals, procs[a].what)
       /\ HoldsEdit(store.chemicals, procs[b].what)

(***************************************************************************)
(* The blob-backed handlers, two requests in progress at once              *)
(***************************************************************************)
\* the requests: PUT /api/data and POST /api/snapshot with its body
BlobRequests ==
  { [op |-> "PUTDATA", body |-> b] : b \in DataBodies \ { << >> } }
  \cup { [op |-> "POST", body |-> b] : b \in PostBodies }

\* a handler before its first await
Arrived(req) == [op |-> req.op, body |-> req.body, pc |-> "start", data |-> << >>,
                 overlapped |-> FALSE]

InitBlob ==
  /\ store \in { StoreWith(0), StoreWith(SnapshotCap - 1) }
  /\ procs \in { << Arrived(r1), Arrived(r2) >> : r1 \in BlobRequests, r2 \in BlobRequests }
  /\ backend = "blob"
  /\ lastReq = Response("none", Null, 0)
  /\ nreq = 0
  /\ EngineIdle
  /\ PortfolioIdle

\* const data = await readData()
BlobRead(k) ==
  /\ procs[k].pc = "start"
  /\ procs' = [j \in 1..Len(procs) |->
                 IF j = k
                 THEN [procs[k] EXCEPT !.pc = "read", !.data = readData(backend, store),
                         !.overlapped = \E i \in 1..Len(procs) : procs[i].pc = "read"]
                 ELSE IF procs[j].pc = "read" THEN [procs[j] EXCEPT !.overlapped = TRUE]
                 ELSE procs[j]]
  /\ UNCHANGED <<store, lastReq, nreq, backend, engineVars, portfolioVars>>

\* the date POST /api/snapshot stores under
SnapshotDateOf(body, now) == IF Has(body, "date") THEN body.date ELSE todayStr(now)

\* the rest of the handler: the change made on the object read, then
\* await writeData(data); a POST with a date of another shape answers 400
BlobWrite(k, now) ==
  /\ procs[k].pc = "read"
  /\ IF procs[k].op = "POST" /\ ~MatchesDate(SnapshotDateOf(procs[k].body, now))
     THEN /\ procs' = [procs EXCEPT ![k].pc = "rejected"]
          /\ store' = store
     ELSE /\ procs' = [procs EXCEPT ![k].pc = "done"]
          /\ store' = IF procs[k].op = "POST"
                      THEN WithSnapshot(procs[k].data, SnapshotDateOf(procs[k].body, now))
                      ELSE WithData(procs[k].data, procs[k].body)
  /\ UNCHANGED <<lastReq, nreq, backend, engineVars, portfolioVars>>

NextBlob ==
  \/ \E k \in 1..Len(procs) : BlobRead(k)
  \/ \E k \in 1..Len(procs) : \E now \in ServerClocks : BlobWrite(k, now)

SpecBlob == InitBlob /\ [][NextBlob]_vars

\* the stored document holds what the request wrote (the chemicals as
\* written or as a later read of the blob storage migrated them)
Kept(req) ==
  IF req.op = "POST"
  THEN \E now \in ServerClocks : SnapshotDateOf(req.body, now) \in StoredDates(store.snapshots)
  ELSE /\ Has(req.body, "chemicals") =>
            \/ store.chemicals = req.body.chemicals
            \/ store.chemicals = [i \in 1..Len(req.body.chemicals) |->
                                    blobMigrateChemical(req.body.chemicals[i])]
       /\ Has(req.body, "config") => store.config = req.body.config

\* a PUT /api/data with a POST /api/snapshot, or two POSTs for different dates
Compatible(r1, r2) ==
  \/ r1.op # r2.op
  \/ r1.op = "POST" /\ r2.op = "POST" /\ r1.body # r2.body

BothDone ==
  /\ procs[1].pc = "done"
  /\ procs[2].pc = "done"
  /\ Compatible(procs[1], procs[2])

\* C30: concurrent requests on the blob-backed store lose no update: after
\* a PUT /api/data and a POST /api/snapshot whose reads and writes
\* interleave, the stored document holds the chemicals and config of the PUT
\* and the snapshot of the POST; after two POSTs for different dates, both
\* snapshots
C30_NoUpdateLost == BothDone => (Kept(procs[1]) /\ Kept(procs[2]))

\* the two requests one after the other
C30_SequentialRequestsKept ==
  (BothDone /\ ~procs[1].overlapped /\ ~procs[2].overlapped)
    => (Kept(procs[1]) /\ Kept(procs[2]))

====
